---- MODULE Spec2Model ----
(***************************************************************************)
(* Forecast-data caching pipeline of MeteoWarningTracker: the persistence  *)
(* layer (utils/database.py, WeatherDatabase) and the cache orchestrator   *)
(* (utils/data_fetcher.py, MeteoDataFetcher.fetch_gdps_data; app.py,       *)
(* fetch_and_process_data).                                                *)
(*                                                                         *)
(* Time is counted in clock ticks; HourTicks ticks make one hour, so that  *)
(* two requests can be less than one hour apart.  Coordinates are counted  *)
(* in steps of 0.005 degrees.  The name column of locations is not         *)
(* modelled: no operation reads it.  Every call on locations stamps        *)
(* last_accessed with a later NOW() than the calls before it, and only the *)
(* order of the stamps is read (ORDER BY last_accessed): the table is kept *)
(* as the sequence of its rows from the least to the most recently         *)
(* accessed.                                                               *)
(***************************************************************************)
EXTENDS Integers, Sequences, FiniteSets, TLC

VARIABLES
    now,              \* the wall clock / the database's NOW(), in ticks
    engine,           \* WeatherDatabase.engine: TRUE connected, FALSE None
    locations,        \* table locations: rows [id, lat, lon], by last_accessed
    nextLocId,        \* the serial behind locations.id
    forecast_data,    \* table forecast_data
    model_runs,       \* table model_runs (committed rows)
    ret,              \* what the last persistence operation returned
    lastWrite,        \* history: forecast key -> value of the latest committed write
    lastRun,          \* history: model -> run_time of the latest save_model_run
    tx,               \* per session: the save_model_run transaction in progress
    resolves,         \* history: the location lookups made back to back, the last two
    rq,               \* per session: the forecast request in progress
    prev,             \* history: the request completed last
    served,           \* history: the number of forecast requests started
    weather_warnings, \* table weather_warnings, in insertion order
    ftx,              \* per session: the save_forecast_data transaction in progress
    calc              \* the data processor: the call made, its arguments, its result

vars == <<now, engine, locations, nextLocId, forecast_data, model_runs,
          ret, lastWrite, lastRun, tx, resolves, rq, prev, served, weather_warnings, ftx, calc>>

----------------------------------------------------------------------------
(* Bounds of the model *)

\* clock resolution: ticks per hour
HourTicks == 2
\* the clock stops after this many days
MaxDays == 2
\* rows of forecast_data the model lets the table hold
MaxRows == 2
\* rows of one save_forecast_data batch
MaxBatch == 2
\* rows the model lets the table locations hold
MaxLocs == 2
\* the clock of the forecast requests stops after this many ticks
MaxTicks == 2
\* forecast requests made in one behaviour
MaxRequests == 2
\* rows the model lets the table weather_warnings hold
MaxWarnings == 2
\* rows of a series handed to the data processor
MaxSeries == 2

(* Program constants *)

HoursPerDay == 24
DayTicks == HoursPerDay * HourTicks

Sessions == {"s1", "s2"}
Models == {"GDPS", "GFS"}
RunTimes == {0, 12 * HourTicks}
Params == {"TMP_TGL_2", "APCP_SFC"}
Values == {1000, 2004}
DbLocs == {1}
SweepDays == {0, 1}
NoRun == -1

----------------------------------------------------------------------------
(* forecast_data: INSERT ... ON CONFLICT (location_id, parameter_code,     *)
(* forecast_time) DO UPDATE SET value, created_at = NOW()                  *)

FKey(r) == <<r.location_id, r.parameter_code, r.forecast_time>>

FRow(loc, param, t, v, ts) ==
    [location_id |-> loc, parameter_code |-> param, forecast_time |-> t,
     value |-> v, created_at |-> ts]

\* a plain INSERT on a table without the unique key
InsertForecastNoConflict(table, loc, param, t, v, ts) ==
    table \cup {FRow(loc, param, t, v, ts)}

\* ON CONFLICT DO NOTHING: the first value stays
InsertForecastKeepOld(table, loc, param, t, v, ts) ==
    IF \E r \in table : FKey(r) = <<loc, param, t>>
    THEN table
    ELSE table \cup {FRow(loc, param, t, v, ts)}

UpsertForecast(table, loc, param, t, v, ts) ==
    {r \in table : FKey(r) # <<loc, param, t>>} \cup {FRow(loc, param, t, v, ts)}

\* the loop of save_forecast_data over the rows of the batch, in order
RECURSIVE SaveRows(_, _, _, _, _)
SaveRows(table, loc, param, rows, ts) ==
    IF rows = <<>> THEN table
    ELSE SaveRows(UpsertForecast(table, loc, param, Head(rows).time, Head(rows).value, ts),
                  loc, param, Tail(rows), ts)

\* history of the same loop: the value each key was last given
RECURSIVE NoteRows(_, _, _, _)
NoteRows(hist, loc, param, rows) ==
    IF rows = <<>> THEN hist
    ELSE LET key == <<loc, param, Head(rows).time>>
         IN NoteRows([k \in DOMAIN hist \cup {key} |->
                         IF k = key THEN Head(rows).value ELSE hist[k]],
                     loc, param, Tail(rows))

\* the rows of a batch that overwrite a different value already under their key
RECURSIVE Overwrites(_, _, _, _)
Overwrites(hist, loc, param, rows) ==
    IF rows = <<>> THEN 0
    ELSE LET key == <<loc, param, Head(rows).time>>
             hit == key \in DOMAIN hist /\ hist[key] # Head(rows).value
         IN (IF hit THEN 1 ELSE 0)
            + Overwrites(NoteRows(hist, loc, param, <<Head(rows)>>), loc, param, Tail(rows))

\* the batches a caller can pass: up to MaxBatch rows dated from now on
BatchTimes == {now, now + DayTicks}
BatchRows == [time : BatchTimes, value : Values]
Batches == UNION {[1..n -> BatchRows] : n \in 0..MaxBatch}

----------------------------------------------------------------------------
(* model_runs: UPDATE ... SET is_latest = FALSE WHERE model_name, then     *)
(* INSERT ... ON CONFLICT (model_name, run_time) DO UPDATE SET             *)
(* is_latest = TRUE, available_at = NOW()                                  *)

RRow(m, run, latest, ts) ==
    [model_name |-> m, run_time |-> run, is_latest |-> latest, available_at |-> ts]

\* an UPDATE that forgets the WHERE clause's effect: nothing is un-marked
UnmarkNothing(table, m) == table

UnmarkLatest(table, m) ==
    {IF r.model_name = m THEN [r EXCEPT !.is_latest = FALSE] ELSE r : r \in table}

UpsertRun(table, m, run, ts) ==
    {r \in table : ~(r.model_name = m /\ r.run_time = run)} \cup {RRow(m, run, TRUE, ts)}

\* end_time NULL
NoTime == -1

\* DELETE FROM weather_warnings, lines 472-476
SweepWarnings(table, days, t) ==
    SelectSeq(table, LAMBDA r : ~(\/ (r.end_time # NoTime /\ r.end_time < t)
                                 \/ r.created_at < t - days * DayTicks))

\* DELETE FROM model_runs WHERE available_at < NOW() - days, is_latest forgotten
SweepRunsAnyAge(table, days, t) ==
    {r \in table : ~(r.available_at < t - days * DayTicks)}

SweepRuns(table, days, t) ==
    {r \in table : ~(r.is_latest = FALSE /\ r.available_at < t - days * DayTicks)}

SweepForecasts(table, days, t) ==
    {r \in table : ~(r.created_at < t - days * DayTicks
                     \/ r.forecast_time < t - DayTicks)}

----------------------------------------------------------------------------
Ret(op, val, arg) == [op |-> op, val |-> val, arg |-> arg]

\* no save_forecast_data call in progress
IdleFtx == [pc |-> "idle", location_id |-> 0, parameter_code |-> "TMP_TGL_2",
            batch |-> <<>>, next |-> 1, bad |-> 0, pending |-> {}]

IdleTx == [pc |-> "idle", model |-> "GDPS", run |-> NoRun, snap |-> {}, unmarked |-> {}]

\* no location: None
NoLocation == 0
\* a forecast request that has not started
IdleRq == [pc |-> "idle", parameter |-> "TMP_TGL_2", lat |-> 0, lon |-> 0,
           forecast_hours |-> 1, http |-> "ok", location_id |-> NoLocation,
           cached |-> <<>>, cold |-> FALSE, raw |-> <<>>, source |-> "none",
           httpCalled |-> FALSE, dbCalled |-> FALSE, raised |-> FALSE,
           result |-> <<>>, start |-> 0, preRuns |-> {}, preRows |-> {}]

NoPrev == [parameter |-> "none"]

\* no call of the data processor made
NoCalc == [fn |-> "none", input |-> <<>>, output |-> <<>>]

\* the store and the sessions after start-up
InitStore ==
    /\ now = 0
    /\ engine = TRUE
    /\ locations = <<>>
    /\ nextLocId = 1
    /\ forecast_data = {}
    /\ model_runs = {}
    /\ ret = Ret("none", "None", 0)
    /\ lastWrite = <<>>
    /\ lastRun = [m \in Models |-> NoRun]
    /\ tx = [s \in Sessions |-> IdleTx]
    /\ resolves = <<>>
    /\ rq = [s \in Sessions |-> IdleRq]
    /\ prev = NoPrev
    /\ served = 0
    /\ weather_warnings = <<>>
    /\ ftx = [s \in Sessions |-> IdleFtx]

InitDB == InitStore /\ calc = NoCalc

\* WeatherDatabase.save_forecast_data, the whole call
save_forecast_data(loc, param, batch, outcome) ==
    /\ IF ~engine \/ batch = <<>>
       THEN /\ ret' = Ret("save_forecast_data", "False", 0)
            /\ UNCHANGED <<forecast_data, lastWrite>>
       ELSE IF outcome = "dberror"
       THEN \* SQLAlchemyError: the connection closes without commit
            /\ ret' = Ret("save_forecast_data", "False", 0)
            /\ UNCHANGED <<forecast_data, lastWrite>>
       ELSE IF outcome = "nocols"
       THEN \* a frame without a time or a value column: every row is skipped
            /\ ret' = Ret("save_forecast_data", "True", 0)
            /\ UNCHANGED <<forecast_data, lastWrite>>
       ELSE /\ forecast_data' = SaveRows(forecast_data, loc, param, batch, now)
            /\ lastWrite' = NoteRows(lastWrite, loc, param, batch)
            /\ Cardinality(forecast_data') <= MaxRows
            /\ ret' = Ret("save_forecast_data", "True",
                          IF Overwrites(lastWrite, loc, param, batch) > 0 THEN 1 ELSE 0)
    /\ UNCHANGED <<now, engine, locations, nextLocId, model_runs, lastRun, tx, resolves, rq, prev, served, weather_warnings, ftx, calc>>

\* WeatherDatabase.save_model_run, the whole call run by one session alone
save_model_run(m, run, dbError) ==
    /\ IF ~engine \/ dbError
       THEN /\ ret' = Ret("save_model_run", "False", 0)
            /\ UNCHANGED <<model_runs, lastRun>>
       ELSE /\ model_runs' = UpsertRun(UnmarkLatest(model_runs, m), m, run, now)
            /\ lastRun' = [lastRun EXCEPT ![m] = run]
            /\ ret' = Ret("save_model_run", "True", 0)
    /\ UNCHANGED <<now, engine, locations, nextLocId, forecast_data, lastWrite, tx, resolves, rq, prev, served, weather_warnings, ftx, calc>>

\* WeatherDatabase.clear_old_data, the whole call.  The history lastWrite
\* forgets the keys whose rows the sweep deletes.
clear_old_data(days, dbError) ==
    /\ IF ~engine \/ dbError
       THEN /\ ret' = Ret("clear_old_data", "False", 0)
            /\ UNCHANGED <<forecast_data, model_runs, lastWrite, weather_warnings>>
       ELSE /\ forecast_data' = SweepForecasts(forecast_data, days, now)
            /\ weather_warnings' = SweepWarnings(weather_warnings, days, now)
            /\ model_runs' = SweepRuns(model_runs, days, now)
            /\ lastWrite' = [k \in {FKey(r) : r \in forecast_data'} |-> lastWrite[k]]
            /\ ret' = Ret("clear_old_data", "True", 0)
    /\ UNCHANGED <<now, engine, locations, nextLocId, lastRun, tx, resolves, rq, prev, served, ftx, calc>>

\* a day passes
AdvanceDay ==
    /\ now + DayTicks <= MaxDays * DayTicks
    /\ now' = now + DayTicks
    /\ UNCHANGED <<engine, locations, nextLocId, forecast_data, model_runs,
                   ret, lastWrite, lastRun, tx, resolves, rq, prev, served, weather_warnings, ftx, calc>>

\* a frame without columns and a database error leave the same state
\* whatever rows the frame holds: the one-row frames stand for all of them
SaveForecastStep ==
    \E loc \in DbLocs, param \in Params :
        \/ \E batch \in Batches : save_forecast_data(loc, param, batch, "ok")
        \/ \E batch \in {b \in Batches : Len(b) = 1}, outcome \in {"nocols", "dberror"} :
              save_forecast_data(loc, param, batch, outcome)

SaveModelRunStep ==
    \E m \in Models, run \in RunTimes, dbError \in BOOLEAN : save_model_run(m, run, dbError)

ClearOldDataStep ==
    \E days \in SweepDays, dbError \in BOOLEAN : clear_old_data(days, dbError)

\* sequences of forecast writes and retention sweeps
NextForecasts == SaveForecastStep \/ ClearOldDataStep \/ AdvanceDay

SpecForecasts == InitDB /\ [][NextForecasts]_vars

\* sequences of model-run writes and retention sweeps
NextRuns == SaveModelRunStep \/ ClearOldDataStep \/ AdvanceDay

SpecRuns == InitDB /\ [][NextRuns]_vars

----------------------------------------------------------------------------
(* locations: lookup by coordinates within a tolerance, insert on a miss   *)

\* tolerance=0.01 of get_location_by_coordinates and the 0.01 of save_location,
\* in steps of 0.005 degrees
Tolerance == 2
Lats == 0..3
Lons == 0..1

Abs(x) == IF x < 0 THEN -x ELSE x

\* WHERE lat BETWEEN :lat - tol AND :lat + tol AND lon BETWEEN :lon - tol AND :lon + tol
Candidates(table, lat, lon) ==
    {i \in 1..Len(table) : /\ Abs(table[i].lat - lat) <= Tolerance
                            /\ Abs(table[i].lon - lon) <= Tolerance}

\* the same WHERE with the longitude condition lost
CandidatesLatOnly(table, lat, lon) ==
    {i \in 1..Len(table) : Abs(table[i].lat - lat) <= Tolerance}

\* UPDATE locations SET last_accessed = NOW() WHERE id = :id
Touch(table, i) ==
    SubSeq(table, 1, i - 1) \o SubSeq(table, i + 1, Len(table)) \o <<table[i]>>

\* ORDER BY last_accessed DESC LIMIT 1
MostRecent(is) == CHOOSE i \in is : \A j \in is : j <= i

\* WeatherDatabase.get_location_by_coordinates: the id found (or none) and the table after
GetLocation(table, lat, lon) ==
    LET found == Candidates(table, lat, lon)
    IN IF found = {} THEN [id |-> NoLocation, table |-> table]
       ELSE [id |-> table[MostRecent(found)].id, table |-> Touch(table, MostRecent(found))]

\* WeatherDatabase.save_location: every (id, table after, next id) the call can give;
\* SELECT id ... fetchone() has no ORDER BY and may give any of the rows it matches
SaveLocation(table, nextId, lat, lon) ==
    LET found == Candidates(table, lat, lon)
    IN IF found = {}
       THEN {[id |-> nextId, created |-> TRUE, next |-> nextId + 1,
              table |-> Append(table, [id |-> nextId, lat |-> lat, lon |-> lon])]}
       ELSE {[id |-> table[i].id, created |-> FALSE, next |-> nextId,
              table |-> Touch(table, i)] : i \in found}

\* fetch_gdps_data, lines 66-78: look the point up, save it when it is not found
ResolveLocation(table, nextId, lat, lon) ==
    LET got == GetLocation(table, lat, lon)
    IN IF got.id # NoLocation
       THEN {[id |-> got.id, created |-> FALSE, next |-> nextId, table |-> got.table]}
       ELSE SaveLocation(got.table, nextId, lat, lon)

get_location_by_coordinates(lat, lon) ==
    /\ IF ~engine
       THEN /\ ret' = Ret("get_location_by_coordinates", "None", 0)
            /\ UNCHANGED locations
       ELSE LET got == GetLocation(locations, lat, lon)
            IN /\ locations' = got.table
               /\ ret' = Ret("get_location_by_coordinates",
                             IF got.id = NoLocation THEN "None" ELSE "location", got.id)
    /\ resolves' = <<>>
    /\ UNCHANGED <<now, engine, nextLocId, forecast_data, model_runs, lastWrite, lastRun, tx, rq, prev, served, weather_warnings, ftx, calc>>

save_location(lat, lon, dbError) ==
    /\ IF ~engine \/ dbError
       THEN /\ ret' = Ret("save_location", "None", 0)
            /\ UNCHANGED <<locations, nextLocId>>
       ELSE \E out \in SaveLocation(locations, nextLocId, lat, lon) :
               /\ Len(out.table) <= MaxLocs
               /\ locations' = out.table
               /\ nextLocId' = out.next
               /\ ret' = Ret("save_location", "id", out.id)
    /\ resolves' = <<>>
    /\ UNCHANGED <<now, engine, forecast_data, model_runs, lastWrite, lastRun, tx, rq, prev, served, weather_warnings, ftx, calc>>

\* the lookup of fetch_gdps_data run on its own
resolve_location(lat, lon) ==
    /\ engine
    /\ \E out \in ResolveLocation(locations, nextLocId, lat, lon) :
          /\ Len(out.table) <= MaxLocs
          /\ locations' = out.table
          /\ nextLocId' = out.next
          /\ ret' = Ret("resolve", "id", out.id)
          /\ resolves' = (IF resolves = <<>> THEN <<>> ELSE <<resolves[Len(resolves)]>>)
                          \o <<[lat |-> lat, lon |-> lon, id |-> out.id, created |-> out.created]>>
    /\ UNCHANGED <<now, engine, forecast_data, model_runs, lastWrite, lastRun, tx, rq, prev, served, weather_warnings, ftx, calc>>

NextLocations ==
    \E lat \in Lats, lon \in Lons :
        \/ get_location_by_coordinates(lat, lon)
        \/ \E dbError \in BOOLEAN : save_location(lat, lon, dbError)
        \/ resolve_location(lat, lon)

SpecLocations == InitDB /\ [][NextLocations]_vars

----------------------------------------------------------------------------
(* save_model_run run by several sessions at once.  Each call is one       *)
(* transaction on its own connection, at the store's default isolation     *)
(* (read committed): a statement sees the rows committed when it starts,   *)
(* an UPDATE waits for the rows another open transaction has written, and  *)
(* the writes of a transaction reach the table at its commit.              *)

\* the run_times of model m that session s has written and not yet committed
Locked(s, m) ==
    IF tx[s].model # m THEN {}
    ELSE tx[s].unmarked \cup (IF tx[s].pc = "commit" THEN {tx[s].run} ELSE {})

LockedByOthers(s, m) == UNION {Locked(o, m) : o \in Sessions \ {s}}

\* with self.engine.connect() as connection
TxBegin(s, m, run) ==
    /\ engine
    /\ tx[s].pc = "idle"
    /\ tx' = [tx EXCEPT ![s] = [pc |-> "update", model |-> m, run |-> run,
                                 snap |-> {}, unmarked |-> {}]]
    /\ UNCHANGED <<now, engine, locations, nextLocId, forecast_data, model_runs,
                   ret, lastWrite, lastRun, resolves, rq, prev, served, weather_warnings, ftx, calc>>

\* the UPDATE starts: it will visit the rows of the model committed by now
TxUpdateStart(s) ==
    /\ tx[s].pc = "update"
    /\ tx' = [tx EXCEPT ![s].pc = "updating",
                         ![s].snap = {r.run_time : r \in {q \in model_runs :
                                                          q.model_name = tx[s].model}}]
    /\ UNCHANGED <<now, engine, locations, nextLocId, forecast_data, model_runs,
                   ret, lastWrite, lastRun, resolves, rq, prev, served, weather_warnings, ftx, calc>>

\* the UPDATE ends: once no other transaction holds one of its rows, it has set
\* is_latest = FALSE on each of them
TxUpdateFinish(s) ==
    /\ tx[s].pc = "updating"
    /\ tx[s].snap \cap LockedByOthers(s, tx[s].model) = {}
    /\ tx' = [tx EXCEPT ![s].pc = "insert", ![s].unmarked = tx[s].snap]
    /\ UNCHANGED <<now, engine, locations, nextLocId, forecast_data, model_runs,
                   ret, lastWrite, lastRun, resolves, rq, prev, served, weather_warnings, ftx, calc>>

\* INSERT ... ON CONFLICT DO UPDATE: waits for an uncommitted row of the same key
TxInsert(s) ==
    /\ tx[s].pc = "insert"
    /\ tx[s].run \notin LockedByOthers(s, tx[s].model)
    /\ tx' = [tx EXCEPT ![s].pc = "commit"]
    /\ UNCHANGED <<now, engine, locations, nextLocId, forecast_data, model_runs,
                   ret, lastWrite, lastRun, resolves, rq, prev, served, weather_warnings, ftx, calc>>

\* the writes of the transaction, applied to the committed table
ApplyTx(table, t, ts) ==
    UpsertRun({IF r.model_name = t.model /\ r.run_time \in t.unmarked
               THEN [r EXCEPT !.is_latest = FALSE] ELSE r : r \in table},
              t.model, t.run, ts)

\* connection.commit()
TxCommit(s) ==
    /\ tx[s].pc = "commit"
    /\ model_runs' = ApplyTx(model_runs, tx[s], now)
    /\ lastRun' = [lastRun EXCEPT ![tx[s].model] = tx[s].run]
    /\ ret' = Ret("save_model_run", "True", 0)
    /\ tx' = [tx EXCEPT ![s] = IdleTx]
    /\ UNCHANGED <<now, engine, locations, nextLocId, forecast_data, lastWrite, resolves, rq, prev, served, weather_warnings, ftx, calc>>

NextRunsConcurrent ==
    \E s \in Sessions :
        \/ \E m \in Models, run \in RunTimes : TxBegin(s, m, run)
        \/ TxUpdateStart(s)
        \/ TxUpdateFinish(s)
        \/ TxInsert(s)
        \/ TxCommit(s)

SpecRunsConcurrent == InitDB /\ [][NextRunsConcurrent]_vars

----------------------------------------------------------------------------
(* The cache orchestrator: app.py fetch_and_process_data around            *)
(* MeteoDataFetcher.fetch_gdps_data, one step per call it makes.  The      *)
(* requests modelled are the ones that run the body of                     *)
(* fetch_and_process_data, with save_to_db left at its default.  What the  *)
(* provider answers is the environment's choice, made per request.         *)
(* Values are counted in hundredths of the parameter's unit.               *)

\* what the HTTP call of lines 100-110 can end in
HttpOutcomes == {"ok", "empty", "unavailable", "unparseable"}
\* forecast_hours a caller asks for
Horizons == {1, 2}
\* a frame of hourly points from t on: time_index of generate_sample_data
Series(t, hours, vals) ==
    [h \in 1..hours |-> [time |-> t + (h - 1) * HourTicks, value |-> vals[h]]]

\* now.hour of the clock value t
HourOf(t) == (t % DayTicks) \div HourTicks

\* lines 36-39: run_hour, the 00Z run before 15 UTC, the 12Z run from then on
RunHour(t) == IF HourOf(t) < 15 THEN 0 ELSE 12

\* line 45: now.hour < 3 and run_hour == "12"
UsesYesterday(t) == HourOf(t) < 3 /\ RunHour(t) = 12

\* the run chosen with the 12Z run taken from 12 UTC on
GdpsRunFromNoon(t) ==
    (t \div DayTicks) * DayTicks + (IF HourOf(t) < 12 THEN 0 ELSE 12 * HourTicks)

\* get_latest_gdps_run: the time of the run whose identifier is returned
GdpsRun(t) ==
    (IF UsesYesterday(t) THEN t \div DayTicks - 1 ELSE t \div DayTicks) * DayTicks
        + RunHour(t) * HourTicks

\* the UTC clock values of two days
Clocks == 0..(2 * DayTicks - 1)

InitRunClock ==
    /\ InitStore
    /\ calc \in {[fn |-> "none", input |-> t, output |-> [run |-> NoRun, yesterday |-> FALSE]] :
                    t \in Clocks}

get_latest_gdps_run ==
    /\ calc.fn = "none"
    /\ calc' = [fn |-> "get_latest_gdps_run", input |-> calc.input,
                output |-> [run |-> GdpsRun(calc.input),
                            yesterday |-> UsesYesterday(calc.input)]]
    /\ UNCHANGED <<now, engine, locations, nextLocId, forecast_data, model_runs, ret,
                   lastWrite, lastRun, tx, resolves, rq, prev, served, weather_warnings, ftx>>

SpecRunClock == InitRunClock /\ [][get_latest_gdps_run]_vars

\* ORDER BY forecast_time ASC over a set of rows
RECURSIVE SortByTime(_)
SortByTime(rows) ==
    IF rows = {} THEN <<>>
    ELSE LET first == CHOOSE r \in rows : \A o \in rows : r.forecast_time <= o.forecast_time
         IN <<[time |-> first.forecast_time, value |-> first.value]>>
            \o SortByTime(rows \ {first})

\* lines 239-247 without the lower end of the window
LatestForecastAnyAge(table, loc, param, hours, t) ==
    SortByTime({r \in table : /\ r.location_id = loc
                              /\ r.parameter_code = param
                              /\ r.forecast_time <= t + hours * HourTicks})

\* WeatherDatabase.get_latest_forecast: the frame read, <<>> for None
LatestForecast(table, loc, param, hours, t) ==
    SortByTime({r \in table : /\ r.location_id = loc
                              /\ r.parameter_code = param
                              /\ r.forecast_time >= t
                              /\ r.forecast_time <= t + hours * HourTicks})

\* line 83 with the cached frame never served
ServeNever(rows) == FALSE

\* line 83: db_data is not None and not db_data.empty
ServeFromCache(rows) == rows # <<>>

\* df['value'].round(1), in hundredths
Round1(v) == ((v + 5) \div 10) * 10

RECURSIVE SumValues(_)
SumValues(rows) == IF rows = <<>> THEN 0 ELSE Head(rows).value + SumValues(Tail(rows))

\* process_temperature_data: Kelvin when the mean is above 100, then one decimal
ProcessTemperature(rows) ==
    IF rows = <<>> THEN <<>>
    ELSE LET kelvin == SumValues(rows) > 10000 * Len(rows)
         IN [i \in DOMAIN rows |->
                [time |-> rows[i].time,
                 value |-> Round1(IF kelvin THEN rows[i].value - 27315 ELSE rows[i].value)]]

\* lines 60-68 of app.py: the frame handed back per parameter; the columns
\* process_precipitation_data adds (cumulative, date) are not kept
Process(param, rows) ==
    IF param = "TMP_TGL_2" THEN ProcessTemperature(rows) ELSE rows

InitNoDatabase ==
    /\ now = 0
    /\ engine = FALSE
    /\ locations = <<>>
    /\ nextLocId = 1
    /\ forecast_data = {}
    /\ model_runs = {}
    /\ ret = Ret("none", "None", 0)
    /\ lastWrite = <<>>
    /\ lastRun = [m \in Models |-> NoRun]
    /\ tx = [s \in Sessions |-> IdleTx]
    /\ resolves = <<>>
    /\ rq = [s \in Sessions |-> IdleRq]
    /\ prev = NoPrev
    /\ served = 0
    /\ weather_warnings = <<>>
    /\ ftx = [s \in Sessions |-> IdleFtx]
    /\ calc = NoCalc

\* fetch_and_process_data is entered; line 68 of fetch_gdps_data
FetchBegin(s, parameter, hours, http) ==
    /\ rq[s].pc = "idle"
    /\ served < MaxRequests
    /\ served' = served + 1
    /\ rq' = [rq EXCEPT ![s] =
                [IdleRq EXCEPT !.pc = IF engine THEN "locate" ELSE "request",
                               !.parameter = parameter, !.forecast_hours = hours,
                               !.http = http, !.start = now,
                               !.preRuns = model_runs, !.preRows = forecast_data]]
    /\ UNCHANGED <<now, engine, locations, nextLocId, forecast_data, model_runs,
                   ret, lastWrite, lastRun, tx, resolves, prev, weather_warnings, ftx, calc>>

\* a request made while no other is running
FetchStart(s, parameter, hours, http) ==
    /\ \A o \in Sessions : rq[o].pc = "idle"
    /\ FetchBegin(s, parameter, hours, http)

\* line 71: db.get_location_by_coordinates
FetchLocate(s) ==
    /\ rq[s].pc = "locate"
    /\ LET got == GetLocation(locations, rq[s].lat, rq[s].lon)
       IN /\ locations' = got.table
          /\ rq' = [rq EXCEPT ![s].location_id = got.id,
                              ![s].dbCalled = TRUE,
                              ![s].pc = IF got.id # NoLocation THEN "readcache"
                                        ELSE "savelocation"]
    /\ UNCHANGED <<now, engine, nextLocId, forecast_data, model_runs,
                   ret, lastWrite, lastRun, tx, resolves, prev, served, weather_warnings, ftx, calc>>

\* line 77: db.save_location
FetchSaveLocation(s) ==
    /\ rq[s].pc = "savelocation"
    /\ \E out \in SaveLocation(locations, nextLocId, rq[s].lat, rq[s].lon) :
          /\ locations' = out.table
          /\ nextLocId' = out.next
          /\ rq' = [rq EXCEPT ![s].location_id = out.id, ![s].pc = "readcache"]
    /\ UNCHANGED <<now, engine, forecast_data, model_runs,
                   ret, lastWrite, lastRun, tx, resolves, prev, served, weather_warnings, ftx, calc>>

\* lines 81-85: db.get_latest_forecast, and the return when it gave rows
FetchReadCache(s) ==
    /\ rq[s].pc = "readcache"
    /\ LET rows == LatestForecast(forecast_data, rq[s].location_id, rq[s].parameter,
                                  rq[s].forecast_hours, now)
           any == \E r \in forecast_data : /\ r.location_id = rq[s].location_id
                                           /\ r.parameter_code = rq[s].parameter
       IN rq' = [rq EXCEPT ![s].cached = rows,
                           ![s].cold = ~any,
                           ![s].raw = IF ServeFromCache(rows) THEN rows ELSE <<>>,
                           ![s].source = IF ServeFromCache(rows) THEN "cache" ELSE "none",
                           ![s].pc = IF ServeFromCache(rows) THEN "process" ELSE "saverun"]
    /\ UNCHANGED <<now, engine, locations, nextLocId, forecast_data, model_runs,
                   ret, lastWrite, lastRun, tx, resolves, prev, served, weather_warnings, ftx, calc>>

\* lines 89-95: db.save_model_run("GDPS", run), made before the provider is called
FetchSaveRun(s) ==
    /\ rq[s].pc = "saverun"
    /\ model_runs' = UpsertRun(UnmarkLatest(model_runs, "GDPS"), "GDPS", GdpsRun(now), now)
    /\ lastRun' = [lastRun EXCEPT !["GDPS"] = GdpsRun(now)]
    /\ rq' = [rq EXCEPT ![s].pc = "request"]
    /\ UNCHANGED <<now, engine, locations, nextLocId, forecast_data,
                   ret, lastWrite, tx, resolves, prev, served, weather_warnings, ftx, calc>>

\* the frame a call of save_forecast_data(location_id, parameter, frame) leaves,
\* made only with a database and a location (lines 113 and 126)
Written(s, frame) ==
    IF engine /\ rq[s].location_id # NoLocation /\ frame # <<>>
    THEN SaveRows(forecast_data, rq[s].location_id, rq[s].parameter, frame, now)
    ELSE forecast_data

WrittenHistory(s, frame) ==
    IF engine /\ rq[s].location_id # NoLocation /\ frame # <<>>
    THEN NoteRows(lastWrite, rq[s].location_id, rq[s].parameter, frame)
    ELSE lastWrite

\* lines 98-118: the HTTP call, the parse of the payload, the write of the frame
FetchRequest(s) ==
    /\ rq[s].pc = "request"
    /\ \/ /\ rq[s].http = "ok"
          /\ \E vals \in [1..rq[s].forecast_hours -> Values] :
                LET data == Series(now, rq[s].forecast_hours, vals)
                IN /\ forecast_data' = Written(s, data)
                   /\ lastWrite' = WrittenHistory(s, data)
                   /\ rq' = [rq EXCEPT ![s].httpCalled = TRUE, ![s].raw = data,
                                       ![s].source = "provider", ![s].pc = "process"]
       \/ /\ rq[s].http = "empty"
          /\ rq' = [rq EXCEPT ![s].httpCalled = TRUE, ![s].source = "provider",
                              ![s].pc = "process"]
          /\ UNCHANGED <<forecast_data, lastWrite>>
       \/ \* a RequestException: timeout, connection error, non-2xx status
          /\ rq[s].http = "unavailable"
          /\ rq' = [rq EXCEPT ![s].httpCalled = TRUE, ![s].pc = "sample"]
          /\ UNCHANGED <<forecast_data, lastWrite>>
       \/ \* pd.read_csv or pd.DataFrame raises: not a RequestException, line 120
          \* does not catch it and fetch_gdps_data raises
          /\ rq[s].http = "unparseable"
          /\ rq' = [rq EXCEPT ![s].httpCalled = TRUE, ![s].raised = TRUE,
                              ![s].pc = "fallback"]
          /\ UNCHANGED <<forecast_data, lastWrite>>
    /\ UNCHANGED <<now, engine, locations, nextLocId, model_runs,
                   ret, lastRun, tx, resolves, prev, served, weather_warnings, ftx, calc>>

\* generate_sample_data, lines 790-801 and 962-965: for the U and V wind
\* components `directions` is empty, so `values` is empty and
\* pd.DataFrame({'time': time_index, 'value': values}) raises ValueError
SampleRaises(parameter) == parameter \in {"UGRD_TGL_10", "VGRD_TGL_10"}

\* lines 120-129: generate_sample_data, written through, returned; an
\* exception of generate_sample_data leaves fetch_gdps_data
FetchSample(s) ==
    /\ rq[s].pc = "sample"
    /\ IF SampleRaises(rq[s].parameter)
       THEN /\ rq' = [rq EXCEPT ![s].raised = TRUE, ![s].pc = "fallback"]
            /\ UNCHANGED <<forecast_data, lastWrite>>
       ELSE \E vals \in [1..rq[s].forecast_hours -> Values] :
               LET sample_data == Series(now, rq[s].forecast_hours, vals)
               IN /\ forecast_data' = Written(s, sample_data)
                  /\ lastWrite' = WrittenHistory(s, sample_data)
                  /\ rq' = [rq EXCEPT ![s].raw = sample_data, ![s].source = "sample",
                                      ![s].pc = "process"]
    /\ UNCHANGED <<now, engine, locations, nextLocId, model_runs,
                   ret, lastRun, tx, resolves, prev, served, weather_warnings, ftx, calc>>

\* app.py lines 60-68: the frame is processed and returned
AppProcess(s) ==
    /\ rq[s].pc = "process"
    /\ rq' = [rq EXCEPT ![s].result = Process(rq[s].parameter, rq[s].raw),
                        ![s].pc = "done"]
    /\ UNCHANGED <<now, engine, locations, nextLocId, forecast_data, model_runs,
                   ret, lastWrite, lastRun, tx, resolves, prev, served, weather_warnings, ftx, calc>>

\* app.py lines 69-72: except Exception, generate_sample_data returned as it
\* is; the call is made in the handler, so its exception leaves
\* fetch_and_process_data
AppFallback(s) ==
    /\ rq[s].pc = "fallback"
    /\ IF SampleRaises(rq[s].parameter)
       THEN rq' = [rq EXCEPT ![s].pc = "raised"]
       ELSE \E vals \in [1..rq[s].forecast_hours -> Values] :
               rq' = [rq EXCEPT ![s].result = Series(now, rq[s].forecast_hours, vals),
                                ![s].pc = "done"]
    /\ UNCHANGED <<now, engine, locations, nextLocId, forecast_data, model_runs,
                   ret, lastWrite, lastRun, tx, resolves, prev, served, weather_warnings, ftx, calc>>

\* the caller has the result; the request is remembered as the previous one
AppReturn(s) ==
    /\ rq[s].pc \in {"done", "raised"}
    /\ prev' = [parameter |-> rq[s].parameter, lat |-> rq[s].lat, lon |-> rq[s].lon,
                forecast_hours |-> rq[s].forecast_hours, http |-> rq[s].http,
                cold |-> rq[s].cold, raw |-> rq[s].raw, start |-> rq[s].start]
    /\ rq' = [rq EXCEPT ![s] = IdleRq]
    /\ UNCHANGED <<now, engine, locations, nextLocId, forecast_data, model_runs,
                   ret, lastWrite, lastRun, tx, resolves, served, weather_warnings, ftx, calc>>

\* the clock moves on between two requests: a request takes less than a tick
AdvanceTick ==
    /\ now < MaxTicks
    /\ \A s \in Sessions : rq[s].pc = "idle"
    /\ now' = now + 1
    /\ UNCHANGED <<engine, locations, nextLocId, forecast_data, model_runs,
                   ret, lastWrite, lastRun, tx, resolves, rq, prev, served, weather_warnings, ftx, calc>>

FetchStartStep ==
    \E s \in Sessions, parameter \in Params, hours \in Horizons, http \in HttpOutcomes :
        FetchStart(s, parameter, hours, http)

NextFetch ==
    \/ FetchStartStep
    \/ \E s \in Sessions :
          \/ FetchLocate(s)
          \/ FetchSaveLocation(s)
          \/ FetchReadCache(s)
          \/ FetchSaveRun(s)
          \/ FetchRequest(s)
          \/ FetchSample(s)
          \/ AppProcess(s)
          \/ AppFallback(s)
          \/ AppReturn(s)
    \/ AdvanceTick

SpecFetch == InitDB /\ [][NextFetch]_vars

(* Requests for a parameter code that no provider lists *)

\* a code that is neither in fetch_available_parameters nor in PARAMETER_MAPPING
UnsupportedCode == "XYZ_UNKNOWN"

\* NOAADataProvider.fetch_forecast_data, lines 119-123: logs and returns None
noaa_fetch_forecast_data(parameter) ==
    /\ parameter = UnsupportedCode
    /\ \A s \in Sessions : rq[s].pc = "idle"
    /\ ret' = Ret("fetch_forecast_data", "None", 0)
    /\ UNCHANGED <<now, engine, locations, nextLocId, forecast_data, model_runs,
                   lastWrite, lastRun, tx, resolves, rq, prev, served, weather_warnings,
                   ftx, calc>>

\* fetch_gdps_data does not look the code up: the request runs as any
\* other, whatever the provider answers for the unknown code
NextUnsupported ==
    \/ \E s \in Sessions, hours \in Horizons, http \in HttpOutcomes :
          FetchStart(s, UnsupportedCode, hours, http)
    \/ noaa_fetch_forecast_data(UnsupportedCode)
    \/ \E s \in Sessions :
          \/ FetchLocate(s)
          \/ FetchSaveLocation(s)
          \/ FetchReadCache(s)
          \/ FetchSaveRun(s)
          \/ FetchRequest(s)
          \/ FetchSample(s)
          \/ AppProcess(s)
          \/ AppFallback(s)
          \/ AppReturn(s)
    \/ AdvanceTick

SpecUnsupported == InitDB /\ [][NextUnsupported]_vars

(* Requests an hour and more apart, for a horizon long enough that rows    *)
(* written by one request are still ahead of the clock at the next         *)

\* an hour passes between two requests
AdvanceHour ==
    /\ now + HourTicks <= 2 * HourTicks
    /\ \A s \in Sessions : rq[s].pc = "idle"
    /\ now' = now + HourTicks
    /\ UNCHANGED <<engine, locations, nextLocId, forecast_data, model_runs,
                   ret, lastWrite, lastRun, tx, resolves, rq, prev, served, weather_warnings,
                   ftx, calc>>

NextHourly ==
    \/ \E s \in Sessions, http \in HttpOutcomes : FetchStart(s, "TMP_TGL_2", 3, http)
    \/ \E s \in Sessions :
          \/ FetchLocate(s)
          \/ FetchSaveLocation(s)
          \/ FetchReadCache(s)
          \/ FetchSaveRun(s)
          \/ FetchRequest(s)
          \/ FetchSample(s)
          \/ AppProcess(s)
          \/ AppFallback(s)
          \/ AppReturn(s)
    \/ AdvanceHour

SpecHourly == InitDB /\ [][NextHourly]_vars

(* Requests for a wind component *)

NextWindComponent ==
    \/ \E s \in Sessions, hours \in Horizons, http \in HttpOutcomes :
          FetchStart(s, "UGRD_TGL_10", hours, http)
    \/ \E s \in Sessions :
          \/ FetchLocate(s)
          \/ FetchSaveLocation(s)
          \/ FetchReadCache(s)
          \/ FetchSaveRun(s)
          \/ FetchRequest(s)
          \/ FetchSample(s)
          \/ AppProcess(s)
          \/ AppFallback(s)
          \/ AppReturn(s)
    \/ AdvanceTick

SpecWindComponent == InitDB /\ [][NextWindComponent]_vars

\* the codes fetch_available_parameters lists (lines 198-230)
AvailableParameters ==
    {"TMP_TGL_2", "TMP_TGL_0", "TMP_ISBL_500", "TMP_ISBL_850", "TMAX_TGL_2", "TMIN_TGL_2",
     "APCP_SFC", "ACPCP_SFC", "SNOD_SFC", "WEASD_SFC", "CRAIN_SFC", "CSNOW_SFC",
     "WDIR_TGL_10", "WIND_TGL_10", "GUST_TGL_10", "UGRD_TGL_10", "VGRD_TGL_10",
     "WIND_ISBL_250", "PRMSL_MSL", "PRES_SFC", "HGT_ISBL_500", "RH_TGL_2", "RH_ISBL_700",
     "SPFH_TGL_2", "PWAT_EATM", "TCDC_SFC", "LCDC_LOW", "MCDC_MID", "HCDC_HIGH",
     "CAPE_SFC", "CIN_SFC", "LFTX_SFC", "VIS_SFC", "WTMP_SFC", "LAND_SFC"}

\* len(values) at line 962: every branch fills one value per hour, except that
\* the U and V components zip the speeds with the empty list `directions`
SampleValues(parameter, hours) == IF SampleRaises(parameter) THEN 0 ELSE hours

InitSample ==
    /\ InitStore
    /\ calc \in {[fn |-> "none", input |-> [parameter |-> p, hours |-> h],
                  output |-> [raised |-> FALSE, rows |-> <<>>]] :
                    p \in AvailableParameters, h \in 1..MaxSeries}

\* generate_sample_data from line 672 on, the secondary provider having given
\* nothing: pd.DataFrame raises ValueError when the two columns differ in length
generate_sample_data ==
    /\ calc.fn = "none"
    /\ LET parameter == calc.input.parameter
           hours == calc.input.hours
       IN IF SampleValues(parameter, hours) # hours
          THEN calc' = [fn |-> "generate_sample_data", input |-> calc.input,
                        output |-> [raised |-> TRUE, rows |-> <<>>]]
          ELSE \E vals \in [1..hours -> Values] :
                  calc' = [fn |-> "generate_sample_data", input |-> calc.input,
                           output |-> [raised |-> FALSE, rows |-> Series(now, hours, vals)]]
    /\ UNCHANGED <<now, engine, locations, nextLocId, forecast_data, model_runs, ret,
                   lastWrite, lastRun, tx, resolves, rq, prev, served, weather_warnings, ftx>>

SpecSample == InitSample /\ [][generate_sample_data]_vars

(* Two sessions inside fetch_gdps_data at the same time.  Each statement   *)
(* of save_location is a step of its own; save_forecast_data is one step,  *)
(* at its commit: the rows of a call are upserted in one transaction, in   *)
(* time order, and a second writer of a key waits for the first to commit. *)

\* save_location, lines 47-56: SELECT id FROM locations WHERE ... fetchone()
SaveLocationSelect(s) ==
    /\ rq[s].pc = "savelocation"
    /\ LET found == Candidates(locations, rq[s].lat, rq[s].lon)
       IN IF found = {}
          THEN /\ rq' = [rq EXCEPT ![s].pc = "insertlocation"]
               /\ UNCHANGED locations
          ELSE \E i \in found :
                  /\ locations' = Touch(locations, i)
                  /\ rq' = [rq EXCEPT ![s].location_id = locations[i].id,
                                      ![s].pc = "readcache"]
    /\ UNCHANGED <<now, engine, nextLocId, forecast_data, model_runs,
                   ret, lastWrite, lastRun, tx, resolves, prev, served, weather_warnings,
                   ftx, calc>>

\* save_location, lines 70-79: INSERT INTO locations ... RETURNING id, commit
SaveLocationInsert(s) ==
    /\ rq[s].pc = "insertlocation"
    /\ locations' = Append(locations, [id |-> nextLocId, lat |-> rq[s].lat,
                                       lon |-> rq[s].lon])
    /\ nextLocId' = nextLocId + 1
    /\ rq' = [rq EXCEPT ![s].location_id = nextLocId, ![s].pc = "readcache"]
    /\ UNCHANGED <<now, engine, forecast_data, model_runs,
                   ret, lastWrite, lastRun, tx, resolves, prev, served, weather_warnings,
                   ftx, calc>>

NextConcurrent ==
    \E s \in Sessions :
        \/ \E hours \in Horizons, http \in HttpOutcomes : FetchBegin(s, "TMP_TGL_2", hours, http)
        \/ FetchLocate(s)
        \/ SaveLocationSelect(s)
        \/ SaveLocationInsert(s)
        \/ FetchReadCache(s)
        \/ FetchSaveRun(s)
        \/ FetchRequest(s)
        \/ FetchSample(s)
        \/ AppProcess(s)
        \/ AppFallback(s)
        \/ AppReturn(s)

SpecConcurrent == InitDB /\ [][NextConcurrent]_vars

----------------------------------------------------------------------------
(* The reads of WeatherDatabase as calls of their own, and the pipeline    *)
(* without a database: DATABASE_URL unset leaves engine None.              *)

\* what a call of get_latest_forecast was asked, when, and the frame it gave
Asked(loc, param, hours, frame) ==
    [location_id |-> loc, parameter_code |-> param, hours_limit |-> hours,
     at |-> now, frame |-> frame]

\* WeatherDatabase.get_latest_forecast, the whole call
get_latest_forecast(loc, param, hours) ==
    /\ ret' = IF ~engine THEN Ret("get_latest_forecast", "None", Asked(loc, param, hours, <<>>))
              ELSE LET rows == LatestForecast(forecast_data, loc, param, hours, now)
                   IN Ret("get_latest_forecast",
                          IF rows = <<>> THEN "None" ELSE "frame",
                          Asked(loc, param, hours, rows))
    /\ UNCHANGED <<now, engine, locations, nextLocId, forecast_data, model_runs,
                   lastWrite, lastRun, tx, resolves, rq, prev, served, weather_warnings, ftx, calc>>

\* WeatherDatabase.get_latest_model_run, the whole call
get_latest_model_run(m) ==
    /\ ret' = IF ~engine THEN Ret("get_latest_model_run", "None", 0)
              ELSE LET latest == {r \in model_runs : r.model_name = m /\ r.is_latest}
                   IN IF latest = {} THEN Ret("get_latest_model_run", "None", 0)
                      ELSE Ret("get_latest_model_run", "run_time",
                               (CHOOSE r \in latest :
                                   \A o \in latest : o.run_time <= r.run_time).run_time)
    /\ UNCHANGED <<now, engine, locations, nextLocId, forecast_data, model_runs,
                   lastWrite, lastRun, tx, resolves, rq, prev, served, weather_warnings, ftx, calc>>

\* WeatherDatabase.get_recent_locations, the whole call
get_recent_locations ==
    /\ ret' = IF ~engine \/ locations = <<>> THEN Ret("get_recent_locations", "[]", 0)
              ELSE Ret("get_recent_locations", "list", Len(locations))
    /\ UNCHANGED <<now, engine, locations, nextLocId, forecast_data, model_runs,
                   lastWrite, lastRun, tx, resolves, rq, prev, served, weather_warnings, ftx, calc>>

DatabaseCall ==
    \/ SaveForecastStep
    \/ SaveModelRunStep
    \/ ClearOldDataStep
    \/ \E lat \in Lats, lon \in Lons :
          \/ get_location_by_coordinates(lat, lon)
          \/ \E dbError \in BOOLEAN : save_location(lat, lon, dbError)
    \/ \E param \in Params, hours \in Horizons : get_latest_forecast(NoLocation + 1, param, hours)
    \/ \E m \in Models : get_latest_model_run(m)
    \/ get_recent_locations

\* without a database fetch_gdps_data skips lines 69-85 and 94-95; the
\* application is single-threaded, other calls come between two requests
NextNoDatabase ==
    \/ (\A s \in Sessions : rq[s].pc = "idle") /\ DatabaseCall
    \/ FetchStartStep
    \/ \E s \in Sessions :
          \/ FetchRequest(s)
          \/ FetchSample(s)
          \/ AppProcess(s)
          \/ AppFallback(s)
          \/ AppReturn(s)
    \/ AdvanceTick

SpecNoDatabase == InitNoDatabase /\ [][NextNoDatabase]_vars

----------------------------------------------------------------------------
(* Reads of forecast_data among writes for several locations and           *)
(* parameters, with rows before, inside, at the ends of and beyond the     *)
(* window read.                                                            *)

\* rows are written one at a time for two locations, at now, one and two
\* hours ahead; the reads do not look at the value
NextReads ==
    \/ \E loc \in {1, 2}, param \in Params, t \in {now, now + HourTicks, now + 2 * HourTicks} :
          save_forecast_data(loc, param,
                             <<[time |-> t, value |-> CHOOSE v \in Values : TRUE]>>, "ok")
    \/ \E loc \in {1, 2}, param \in Params, hours \in Horizons :
          get_latest_forecast(loc, param, hours)
    \/ AdvanceTick

SpecReads == InitDB /\ [][NextReads]_vars

----------------------------------------------------------------------------
(* Weather warnings: save_weather_warning, get_active_warnings and the     *)
(* retention sweep.  The severity column holds the string it is given and  *)
(* ORDER BY severity compares strings.                                     *)

Severities == {"minor", "moderate", "severe", "extreme"}

\* the place of a severity among the strings in ascending order
AlphaRank == [extreme |-> 1, minor |-> 2, moderate |-> 3, severe |-> 4]

WRow(loc, type, start, end, severity, ts) ==
    [location_id |-> loc, warning_type |-> type, start_time |-> start,
     end_time |-> end, severity |-> severity, created_at |-> ts]

\* WHERE location_id = :location_id AND (end_time IS NULL OR end_time > NOW())
ActiveRows(table, loc, t) ==
    SelectSeq(table, LAMBDA r : /\ r.location_id = loc
                                /\ (r.end_time = NoTime \/ r.end_time > t))

\* ORDER BY severity DESC, start_time ASC: a may come before b
MayPrecede(a, b) ==
    \/ AlphaRank[a.severity] > AlphaRank[b.severity]
    \/ a.severity = b.severity /\ a.start_time <= b.start_time

\* every order the query can give the rows in: rows the ORDER BY ties come in any order
Ordered(rows) ==
    LET n == Len(rows)
        perms == {f \in [1..n -> 1..n] : \A i, j \in 1..n : f[i] = f[j] => i = j}
    IN {[i \in 1..n |-> rows[f[i]]] :
          f \in {g \in perms : \A i, j \in 1..n : i < j => MayPrecede(rows[g[i]], rows[g[j]])}}

\* WeatherDatabase.save_weather_warning, the whole call: a plain INSERT
save_weather_warning(loc, type, start, end, severity, dbError) ==
    /\ IF ~engine \/ dbError
       THEN /\ ret' = Ret("save_weather_warning", "False", 0)
            /\ UNCHANGED weather_warnings
       ELSE /\ Len(weather_warnings) < MaxWarnings
            /\ weather_warnings' = Append(weather_warnings,
                                          WRow(loc, type, start, end, severity, now))
            /\ ret' = Ret("save_weather_warning", "True", 0)
    /\ UNCHANGED <<now, engine, locations, nextLocId, forecast_data, model_runs,
                   lastWrite, lastRun, tx, resolves, rq, prev, served, ftx, calc>>

\* WeatherDatabase.get_active_warnings, the whole call
get_active_warnings(loc) ==
    /\ IF ~engine
       THEN ret' = Ret("get_active_warnings", "[]", <<>>)
       ELSE \E list \in Ordered(ActiveRows(weather_warnings, loc, now)) :
               ret' = Ret("get_active_warnings", IF list = <<>> THEN "[]" ELSE "list", list)
    /\ UNCHANGED <<now, engine, locations, nextLocId, forecast_data, model_runs,
                   lastWrite, lastRun, tx, resolves, rq, prev, served, weather_warnings, ftx, calc>>

NextWarnings ==
    \/ \E loc \in DbLocs, start \in {now, now + DayTicks},
          end \in {NoTime, now, now + DayTicks}, severity \in Severities,
          dbError \in BOOLEAN :
            save_weather_warning(loc, "Heavy Precipitation", start, end, severity, dbError)
    \/ \E loc \in DbLocs : get_active_warnings(loc)
    \/ ClearOldDataStep
    \/ AdvanceDay

SpecWarnings == InitDB /\ [][NextWarnings]_vars

\* the alerts the provider answers with: one without 'times' (no start, no end)
\* and one whose times are the hour from 0 on (end = last time + 1 hour)
Alerts == {[start |-> NoTime, end |-> NoTime], [start |-> 0, end |-> HourTicks]}

\* fetch_severe_warnings, lines 144-154: the location lookup and the read of
\* the warnings stored for it; the call returns them when there are any
WarnCheck(s) ==
    /\ engine
    /\ rq[s].pc = "idle"
    /\ served < MaxRequests
    /\ served' = served + 1
    /\ LET got == GetLocation(locations, 0, 0)
           cached == got.id # NoLocation /\ ActiveRows(weather_warnings, got.id, now) # <<>>
       IN /\ locations' = got.table
          /\ rq' = [rq EXCEPT ![s] = [IdleRq EXCEPT !.pc = IF cached THEN "idle" ELSE "warnings",
                                                    !.location_id = got.id, !.start = now]]
          /\ ret' = IF cached THEN Ret("fetch_severe_warnings", "cached", 0) ELSE ret
    /\ UNCHANGED <<now, engine, nextLocId, forecast_data, model_runs, lastWrite, lastRun,
                   tx, resolves, prev, weather_warnings, ftx, calc>>

\* fetch_severe_warnings, lines 157-196: the provider call and one
\* save_weather_warning per alert of the answer when the location is known
WarnFetch(s, alert, http) ==
    /\ rq[s].pc = "warnings"
    /\ IF http = "ok" /\ rq[s].location_id # NoLocation
       THEN /\ Len(weather_warnings) < MaxWarnings
            /\ weather_warnings' = Append(weather_warnings,
                   WRow(rq[s].location_id, "Heavy Precipitation", alert.start, alert.end,
                        "moderate", now))
       ELSE UNCHANGED weather_warnings
    /\ ret' = Ret("fetch_severe_warnings", IF http = "ok" THEN "fetched" ELSE "[]", 0)
    /\ rq' = [rq EXCEPT ![s] = IdleRq]
    /\ UNCHANGED <<now, engine, locations, nextLocId, forecast_data, model_runs, lastWrite,
                   lastRun, tx, resolves, prev, served, ftx, calc>>

\* requests for the warnings of one point, by sessions that may overlap
NextSevere ==
    \/ save_location(0, 0, FALSE)
    \/ \E s \in Sessions :
          \/ WarnCheck(s)
          \/ \E alert \in Alerts, http \in {"ok", "unavailable"} : WarnFetch(s, alert, http)
    \/ AdvanceDay

SpecSevere == InitDB /\ [][NextSevere]_vars

----------------------------------------------------------------------------
(* save_forecast_data statement by statement.  The call opens a            *)
(* connection, runs one INSERT per row inside the transaction the first    *)
(* statement begins, and commits after the loop; leaving the with block    *)
(* on an exception closes the connection, which rolls the transaction      *)
(* back.  Readers see committed rows only.  NOW() is the time the          *)
(* transaction started.  One such call is open at a time.                  *)

\* the committed table after a statement, were each statement committed on its own
StatementAutocommit(committed, after) == after

\* the committed table after a statement of an open transaction: as before it
StatementEffect(committed, after) == committed

\* line 104: with self.engine.connect(); bad is the row whose value float() rejects
BatchBegin(s, loc, param, batch, bad) ==
    /\ engine
    /\ batch # <<>>
    /\ \A o \in Sessions : ftx[o].pc = "idle"
    /\ ftx' = [ftx EXCEPT ![s] = [pc |-> "open", location_id |-> loc, parameter_code |-> param,
                                  batch |-> batch, next |-> 1, bad |-> bad,
                                  pending |-> forecast_data]]
    /\ UNCHANGED <<now, engine, locations, nextLocId, forecast_data, model_runs, ret,
                   lastWrite, lastRun, tx, resolves, rq, prev, served, weather_warnings, calc>>

\* lines 111-124: one INSERT ... ON CONFLICT DO UPDATE of the loop
BatchInsert(s) ==
    LET t == ftx[s]
        row == t.batch[t.next]
        after == UpsertForecast(t.pending, t.location_id, t.parameter_code,
                                row.time, row.value, now)
    IN /\ t.pc = "open"
       /\ t.next <= Len(t.batch)
       /\ t.next # t.bad
       /\ Cardinality(after) <= MaxRows
       /\ ftx' = [ftx EXCEPT ![s].pending = after, ![s].next = t.next + 1]
       /\ forecast_data' = StatementEffect(forecast_data, after)
       /\ UNCHANGED <<now, engine, locations, nextLocId, model_runs, ret,
                      lastWrite, lastRun, tx, resolves, rq, prev, served, weather_warnings, calc>>

\* line 123: float(row['value']) raises; the exception is not an
\* SQLAlchemyError and leaves save_forecast_data, closing the connection
BatchConvertError(s) ==
    /\ ftx[s].pc = "open"
    /\ ftx[s].next = ftx[s].bad
    /\ ftx' = [ftx EXCEPT ![s] = IdleFtx]
    /\ ret' = Ret("save_forecast_data", "raised", ftx[s].next - 1)
    /\ UNCHANGED <<now, engine, locations, nextLocId, forecast_data, model_runs,
                   lastWrite, lastRun, tx, resolves, rq, prev, served, weather_warnings, calc>>

\* lines 130-132: a statement or the commit raises SQLAlchemyError
BatchDbError(s) ==
    /\ ftx[s].pc = "open"
    /\ ftx' = [ftx EXCEPT ![s] = IdleFtx]
    /\ ret' = Ret("save_forecast_data", "False", ftx[s].next - 1)
    /\ UNCHANGED <<now, engine, locations, nextLocId, forecast_data, model_runs,
                   lastWrite, lastRun, tx, resolves, rq, prev, served, weather_warnings, calc>>

\* lines 126-128: connection.commit() after the loop
BatchCommit(s) ==
    /\ ftx[s].pc = "open"
    /\ ftx[s].next > Len(ftx[s].batch)
    /\ forecast_data' = ftx[s].pending
    /\ lastWrite' = NoteRows(lastWrite, ftx[s].location_id, ftx[s].parameter_code,
                             ftx[s].batch)
    /\ ftx' = [ftx EXCEPT ![s] = IdleFtx]
    /\ ret' = Ret("save_forecast_data", "True", 0)
    /\ UNCHANGED <<now, engine, locations, nextLocId, model_runs,
                   lastRun, tx, resolves, rq, prev, served, weather_warnings, calc>>

\* a reader asks for the day ahead: every row a batch can hold
NextBatch ==
    \/ /\ \A o \in Sessions : ftx[o].pc = "idle"
       /\ \E s \in Sessions, loc \in DbLocs, param \in Params, batch \in Batches :
             \E bad \in 0..Len(batch) : BatchBegin(s, loc, param, batch, bad)
    \/ \E s \in Sessions :
          \/ BatchInsert(s)
          \/ BatchConvertError(s)
          \/ BatchDbError(s)
          \/ BatchCommit(s)
    \/ \E loc \in DbLocs, param \in Params : get_latest_forecast(loc, param, HoursPerDay)

SpecBatch == InitDB /\ [][NextBatch]_vars

----------------------------------------------------------------------------
(* The data processor (utils/data_processor.py): identify_severe_weather.  *)
(* A bundle maps a parameter code to a frame, to None, or does not hold    *)
(* the key.  A frame has columns and rows; values are in hundredths.       *)

BundleKeys == {"TMP_TGL_2", "APCP_SFC", "WIND_TGL_10"}

\* the values a series of each parameter is drawn from, around the thresholds
SeriesValues == [TMP_TGL_2   |-> {-2010, -2000, 3000, 3010},
                 APCP_SFC    |-> {1000, 1010},
                 WIND_TGL_10 |-> {5000, 5010}]

Frame(columns, rows) == [kind |-> "frame", columns |-> columns, rows |-> rows]
MissingKey == [kind |-> "missing", columns |-> {}, rows |-> <<>>]
NoneFrame == [kind |-> "None", columns |-> {}, rows |-> <<>>]

\* what a bundle can hold under a key
Entries(key) ==
    {MissingKey, NoneFrame, Frame({"time"}, <<>>), Frame({"value"}, <<>>)}
    \cup UNION {{Frame({"time", "value"}, Series(0, n, vals)) :
                    vals \in [1..n -> SeriesValues[key]]} : n \in 0..MaxSeries}

\* 'KEY' in data_dict and data_dict['KEY'] is not None, 'value' in df.columns
HasValues(entry) == entry.kind = "frame" /\ "value" \in entry.columns

\* df[...]['time'] raises KeyError on a frame that has no time column
RaisesKeyError(entry) == HasValues(entry) /\ "time" \notin entry.columns

\* a rule that also fires on the threshold itself
ExceedsOrEquals(limit, v) == v >= limit

\* the comparison of the high-temperature, precipitation and wind rules: value > limit
Exceeds(limit, v) == v > limit

\* the comparison of the low-temperature rule: value < limit
Below(limit, v) == v < limit

\* ['time'].tolist() of the rows a filter kept
TimesOf(rows) == [i \in DOMAIN rows |-> rows[i].time]

\* one event for each timestamp that crosses
EventPerTime(type, times) == [i \in DOMAIN times |-> [type |-> type, times |-> <<times[i]>>]]

\* if times: severe_events.append({'type': ..., 'times': times, ...})
Event(type, times) == IF times = <<>> THEN <<>> ELSE <<[type |-> type, times |-> times]>>

\* lines 153-173: the two temperature rules (thresholds in hundredths)
TemperatureEvents(entry) ==
    IF HasValues(entry) /\ ~RaisesKeyError(entry)
    THEN Event("Extreme Heat", TimesOf(SelectSeq(entry.rows, LAMBDA r : Exceeds(3000, r.value))))
         \o Event("Extreme Cold", TimesOf(SelectSeq(entry.rows, LAMBDA r : Below(-2000, r.value))))
    ELSE <<>>

\* lines 175-186
PrecipitationEvents(entry) ==
    IF HasValues(entry) /\ ~RaisesKeyError(entry)
    THEN Event("Heavy Precipitation",
               TimesOf(SelectSeq(entry.rows, LAMBDA r : Exceeds(1000, r.value))))
    ELSE <<>>

\* lines 188-199
WindEvents(entry) ==
    IF HasValues(entry) /\ ~RaisesKeyError(entry)
    THEN Event("Strong Winds", TimesOf(SelectSeq(entry.rows, LAMBDA r : Exceeds(5000, r.value))))
    ELSE <<>>

\* a classifier that gives up on the bundle when a parameter is not usable
IdentifyAllOrNothing(b) ==
    IF \E k \in BundleKeys : ~HasValues(b[k]) \/ RaisesKeyError(b[k]) THEN <<>>
    ELSE TemperatureEvents(b["TMP_TGL_2"]) \o PrecipitationEvents(b["APCP_SFC"])
         \o WindEvents(b["WIND_TGL_10"])

\* WeatherDataProcessor.identify_severe_weather: the rules in order; an
\* exception ends the call with the events appended so far (lines 203-205)
IdentifySevereWeather(b) ==
    IF RaisesKeyError(b["TMP_TGL_2"]) THEN <<>>
    ELSE IF RaisesKeyError(b["APCP_SFC"]) THEN TemperatureEvents(b["TMP_TGL_2"])
    ELSE IF RaisesKeyError(b["WIND_TGL_10"])
    THEN TemperatureEvents(b["TMP_TGL_2"]) \o PrecipitationEvents(b["APCP_SFC"])
    ELSE TemperatureEvents(b["TMP_TGL_2"]) \o PrecipitationEvents(b["APCP_SFC"])
         \o WindEvents(b["WIND_TGL_10"])

InitClassifier ==
    /\ InitStore
    /\ calc \in {[fn |-> "none", input |-> b, output |-> <<>>] :
                    b \in [TMP_TGL_2 : Entries("TMP_TGL_2"), APCP_SFC : Entries("APCP_SFC"),
                           WIND_TGL_10 : Entries("WIND_TGL_10")]}

identify_severe_weather ==
    /\ calc.fn = "none"
    /\ calc' = [fn |-> "identify_severe_weather", input |-> calc.input,
                output |-> IdentifySevereWeather(calc.input)]
    /\ UNCHANGED <<now, engine, locations, nextLocId, forecast_data, model_runs, ret,
                   lastWrite, lastRun, tx, resolves, rq, prev, served, weather_warnings, ftx>>

SpecClassifier == InitClassifier /\ [][identify_severe_weather]_vars

(* WeatherDataProcessor.calculate_wind_chill (data_processor.py 206-246) *)

\* the series either argument can be: None, or an hourly frame from a start time
ChillFrames(values, starts) ==
    {NoneFrame} \cup UNION {UNION {{Frame({"time", "value"}, Series(t, n, vals)) :
                                       vals \in [1..n -> values]} : n \in 0..MaxSeries} :
                            t \in starts}

\* pd.merge(temp_df, wind_df, on='time'): the inner join, in the order of temp_df
RECURSIVE Merge(_, _)
Merge(temps, winds) ==
    IF temps = <<>> THEN <<>>
    ELSE LET t == Head(temps)
             same == SelectSeq(winds, LAMBDA w : w.time = t.time)
         IN [i \in DOMAIN same |-> [time |-> t.time, value_temp |-> t.value,
                                    value_wind |-> same[i].value]]
            \o Merge(Tail(temps), winds)

\* a mask that leaves the limits themselves out
InChillRangeStrict(temp, wind) == temp < 1000 /\ wind > 500

\* mask = (merged['value_temp'] <= 10) & (merged['value_wind'] >= 5), in hundredths
InChillRange(temp, wind) == temp <= 1000 /\ wind >= 500

\* merged['wind_chill'] = np.nan; merged.loc[mask, 'wind_chill'] = formula:
\* the formula is a number for every wind speed of at least 5
CalculateWindChill(temp_df, wind_df) ==
    IF temp_df = NoneFrame \/ wind_df = NoneFrame THEN NoneFrame
    ELSE IF ~({"time", "value"} \subseteq temp_df.columns \cap wind_df.columns)
    THEN \* temp_df['time'] or merged['value_temp'] is a KeyError: except, return None
         NoneFrame
    ELSE LET merged == Merge(temp_df.rows, wind_df.rows)
         IN Frame({"time", "value_temp", "value_wind", "wind_chill"},
                  [i \in DOMAIN merged |->
                      [time |-> merged[i].time, value_temp |-> merged[i].value_temp,
                       value_wind |-> merged[i].value_wind,
                       wind_chill |-> IF InChillRange(merged[i].value_temp,
                                                      merged[i].value_wind)
                                      THEN "number" ELSE "NaN"]])

InitWindChill ==
    /\ InitStore
    /\ calc \in {[fn |-> "none", input |-> [temp_df |-> t, wind_df |-> w], output |-> NoneFrame] :
                    t \in ChillFrames({1000, 1010, 1500}, {0}),
                    w \in ChillFrames({490, 500}, {0, HourTicks})}

calculate_wind_chill ==
    /\ calc.fn = "none"
    /\ calc' = [fn |-> "calculate_wind_chill", input |-> calc.input,
                output |-> CalculateWindChill(calc.input.temp_df, calc.input.wind_df)]
    /\ UNCHANGED <<now, engine, locations, nextLocId, forecast_data, model_runs, ret,
                   lastWrite, lastRun, tx, resolves, rq, prev, served, weather_warnings, ftx>>

SpecWindChill == InitWindChill /\ [][calculate_wind_chill]_vars

\* the frame with only the columns cols kept
Restrict(frame, cols) ==
    Frame(cols, [i \in DOMAIN frame.rows |-> [c \in cols |-> frame.rows[i][c]]])

\* calculate_wind_chill on frames that may lack the time or the value column
InitMissingColumns ==
    /\ InitStore
    /\ calc \in {[fn |-> "none", input |-> [temp_df |-> t, wind_df |-> w], output |-> NoneFrame] :
                    t \in {Restrict(f, cols) : f \in ChillFrames({1000}, {0}) \ {NoneFrame},
                                               cols \in SUBSET {"time", "value"}},
                    w \in {Restrict(f, cols) : f \in ChillFrames({500}, {0}) \ {NoneFrame},
                                               cols \in SUBSET {"time", "value"}}}

SpecMissingColumns == InitMissingColumns /\ [][calculate_wind_chill]_vars

(* VisualCrossingAPI.calculate_fire_weather_index (visual_crossing.py 227-286) *)

\* a key the data dictionary does not hold
NoKey == -9999

\* data.get(key, default)
Get(v, default) == IF v = NoKey THEN default ELSE v

Max2(a, b) == IF a >= b THEN a ELSE b
Min2(a, b) == IF a <= b THEN a ELSE b

\* an index that is not clamped
Unclamped(fwi) == fwi

\* fwi = max(0, min(100, fwi)), in hundredths
Clamp(fwi) == Max2(0, Min2(10000, fwi))

\* the if / elif chain over the index, in hundredths
FwiCategory(fwi) ==
    IF fwi < 2000 THEN "Low"
    ELSE IF fwi < 4000 THEN "Moderate"
    ELSE IF fwi < 6000 THEN "High"
    ELSE IF fwi < 8000 THEN "Very High"
    ELSE "Extreme"

FwiColor(category) ==
    CASE category = "Low" -> "green"
      [] category = "Moderate" -> "blue"
      [] category = "High" -> "yellow"
      [] category = "Very High" -> "orange"
      [] category = "Extreme" -> "red"

\* the four factors with their weights, in hundredths of the index:
\* temperature in degrees, humidity in tenths of a percent, wind speed in
\* km/h, precipitation in tenths of a millimetre
CalculateFireWeatherIndex(data) ==
    LET temp == Get(data.temp, 0)
        humidity == Get(data.humidity, 500)
        wind_speed == Get(data.windspeed, 0)
        precip == Get(data.precip, 0)
        temp_part == Max2(0, 100 * (temp - 10))
        humidity_part == Max2(0, 3 * (1000 - humidity))
        wind_part == Min2(2000, 50 * wind_speed)
        precip_part == Max2(0, 2000 - 40 * precip)
        fwi == Clamp(temp_part + humidity_part + wind_part + precip_part)
    IN [value |-> Round1(fwi), category |-> FwiCategory(fwi),
        color |-> FwiColor(FwiCategory(fwi))]

InitFireWeather ==
    /\ InitStore
    /\ calc \in {[fn |-> "none", output |-> <<>>,
                   input |-> [temp |-> t, humidity |-> h, windspeed |-> w, precip |-> p]] :
                    t \in {NoKey, 10, 15, 29, 35, 45}, h \in {NoKey, 100, 800, 968, 1000},
                    w \in {NoKey, 0, 5, 30, 40}, p \in {NoKey, 0, 50, 200}}

calculate_fire_weather_index ==
    /\ calc.fn = "none"
    /\ calc' = [fn |-> "calculate_fire_weather_index", input |-> calc.input,
                output |-> CalculateFireWeatherIndex(calc.input)]
    /\ UNCHANGED <<now, engine, locations, nextLocId, forecast_data, model_runs, ret,
                   lastWrite, lastRun, tx, resolves, rq, prev, served, weather_warnings, ftx>>

SpecFireWeather == InitFireWeather /\ [][calculate_fire_weather_index]_vars

----------------------------------------------------------------------------
(* C1: after any sequence of save_forecast_data calls (and sweeps) the     *)
(* table forecast_data holds at most one row per (location_id,             *)
(* parameter_code, forecast_time), and the row of a key holds the value    *)
(* most recently written to that key: a second write overwrites.           *)
C1_UpsertOneRowPerKey ==
    /\ \A r1, r2 \in forecast_data : FKey(r1) = FKey(r2) => r1 = r2
    /\ \A r \in forecast_data :
          FKey(r) \in DOMAIN lastWrite /\ r.value = lastWrite[FKey(r)]

\* a key written twice with two different values holds the second one
C1_Witness ==
    /\ ret = Ret("save_forecast_data", "True", 1)
    /\ forecast_data # {}
    /\ \A r \in forecast_data : r.value = lastWrite[FKey(r)]

LatestRows(m) == {r \in model_runs : r.model_name = m /\ r.is_latest}

(* C2: after any sequence of save_model_run calls run one after another,   *)
(* every model has at most one row with is_latest = TRUE, and that row is  *)
(* the run of the most recent call for the model.                          *)
C2_OneLatestPerModel ==
    \A m \in Models :
        /\ Cardinality(LatestRows(m)) <= 1
        /\ \A r \in LatestRows(m) : r.run_time = lastRun[m]

\* a model with two saved runs, of which the one saved last is the latest
C2_Witness ==
    \E m \in Models :
        /\ Cardinality({r \in model_runs : r.model_name = m}) >= 2
        /\ \E r \in LatestRows(m) : r.run_time = lastRun[m]

(* C4: clear_old_data never deletes the latest run of a model, whatever    *)
(* its age and whatever days_to_keep is: a model that has had a run saved  *)
(* still has that run, marked latest, after any sequence of saves and      *)
(* sweeps.                                                                 *)
C4_SweepKeepsLatest ==
    \A m \in Models :
        lastRun[m] # NoRun =>
            \E r \in model_runs : r.model_name = m /\ r.run_time = lastRun[m] /\ r.is_latest

\* a sweep has just run and a latest row older than its window is still there
C4_Witness ==
    /\ ret.op = "clear_old_data" /\ ret.val = "True"
    /\ \E r \in model_runs : r.is_latest /\ r.available_at < now - DayTicks

(* C3: when two sessions run save_model_run for the same model with        *)
(* different run times at once, then in every interleaving of their        *)
(* UPDATE, INSERT and commit steps the committed table holds at most one   *)
(* row with is_latest = TRUE for the model.                                *)
C3_ConcurrentOneLatest ==
    \A m \in Models : Cardinality(LatestRows(m)) <= 1

\* two points within 0.005 degrees of each other in latitude and in longitude
Near(a, b) == Abs(a.lat - b.lat) <= 1 /\ Abs(a.lon - b.lon) <= 1

(* C10: location resolution is idempotent for near-duplicate coordinates:  *)
(* after any sequence of save_location / get_location_by_coordinates       *)
(* calls, resolving the same point twice, or two points within 0.005       *)
(* degrees of each other, gives the same location id, and the second       *)
(* lookup creates no row.                                                  *)
C10_ResolveIdempotent ==
    (Len(resolves) = 2 /\ Near(resolves[1], resolves[2])) =>
        (resolves[2].id = resolves[1].id /\ ~resolves[2].created)

----------------------------------------------------------------------------
(* C5: in fetch_gdps_data, when the read of persistence for (location,     *)
(* parameter, horizon) gives a non-empty series, that series is what the   *)
(* request returns and the request ends there: no HTTP call is made, no    *)
(* model run is recorded and no forecast row is written during the         *)
(* request (both tables are as they were when the request started).        *)
C5_CacheHitEndsRequest ==
    \A s \in Sessions :
        rq[s].cached # <<>> =>
            /\ rq[s].pc \in {"process", "done"}
            /\ rq[s].source = "cache"
            /\ rq[s].raw = rq[s].cached
            /\ ~rq[s].httpCalled
            /\ model_runs = rq[s].preRuns
            /\ forecast_data = rq[s].preRows

\* a request has been answered from rows an earlier request wrote
C5_Witness ==
    \E s \in Sessions :
        /\ rq[s].pc = "done"
        /\ rq[s].source = "cache"
        /\ rq[s].cached # <<>>
        /\ rq[s].result # <<>>
        /\ model_runs # {}

\* the rows cover the horizon: a point in each of the hours asked for from t on
Covers(rows, t, hours) ==
    \A h \in 0..(hours - 1) :
        \E i \in DOMAIN rows : /\ rows[i].time >= t + h * HourTicks
                               /\ rows[i].time < t + (h + 1) * HourTicks

(* C6: fetch_gdps_data serves a request from persistence only when the     *)
(* persisted rows satisfy the horizon asked for: rows covering only part   *)
(* of [now, now + forecast_hours] make the request a miss.                 *)
C6_ServedOnlyWhenHorizonCovered ==
    \A s \in Sessions :
        rq[s].source = "cache" =>
            Covers(rq[s].cached, rq[s].start, rq[s].forecast_hours)

(* C7: a request that misses the cache while the provider is unavailable   *)
(* (timeout, non-2xx status, malformed payload) returns a synthetic        *)
(* series, and with a database that same series is in forecast_data for    *)
(* the (location, parameter) when the request returns.                     *)
C7_FallbackWrittenThrough ==
    \A s \in Sessions :
        (/\ rq[s].pc = "done"
         /\ engine
         /\ rq[s].cached = <<>>
         /\ rq[s].http \in {"unavailable", "unparseable"}) =>
            /\ ~rq[s].raised
            /\ rq[s].source = "sample"
            /\ rq[s].raw # <<>>
            /\ \A i \in DOMAIN rq[s].raw :
                  \E r \in forecast_data :
                      /\ r.location_id = rq[s].location_id
                      /\ r.parameter_code = rq[s].parameter
                      /\ r.forecast_time = rq[s].raw[i].time
                      /\ r.value = rq[s].raw[i].value

\* @st.cache_data(ttl=3600): the forecast TTL, one hour
TTLTicks == HourTicks

(* C8: two consecutive requests for the same (location, parameter,         *)
(* horizon), the first on a cold cache, the second within the TTL of the   *)
(* first, the provider failing for both, return identical series: the      *)
(* same timestamps and the same values.                                    *)
C8_FallbackStable ==
    \A s \in Sessions :
        (/\ rq[s].pc = "done"
         /\ engine
         /\ prev.parameter = rq[s].parameter
         /\ prev.lat = rq[s].lat /\ prev.lon = rq[s].lon
         /\ prev.forecast_hours = rq[s].forecast_hours
         /\ prev.cold
         /\ prev.http = "unavailable" /\ rq[s].http = "unavailable"
         /\ rq[s].start - prev.start <= TTLTicks) =>
            rq[s].raw = prev.raw

(* C9: with engine None every WeatherDatabase operation is a no-op: reads  *)
(* return None or an empty list, writes return a failure value and store   *)
(* nothing; and fetch_gdps_data still returns a series, without raising    *)
(* and without calling any persistence operation.                          *)
C9_NoDatabaseNoOp ==
    ~engine =>
        /\ forecast_data = {} /\ model_runs = {} /\ locations = <<>>
        /\ ret.val \in {"None", "False", "[]"}
        /\ \A s \in Sessions : ~rq[s].dbCalled /\ ~rq[s].raised

(* C11: get_latest_forecast(location_id, parameter, hours_limit) returns   *)
(* exactly the persisted rows of that location and parameter whose         *)
(* forecast_time lies in [now, now + hours_limit], in ascending time       *)
(* order, and returns None, never an empty frame, when no row matches.     *)
C11_LatestForecastExact ==
    (ret.op = "get_latest_forecast" /\ engine) =>
        LET q == ret.arg
            f == q.frame
            lo == q.at
            hi == q.at + q.hours_limit * HourTicks
            match == {r \in forecast_data : /\ r.location_id = q.location_id
                                            /\ r.parameter_code = q.parameter_code
                                            /\ r.forecast_time >= lo
                                            /\ r.forecast_time <= hi}
        IN /\ (ret.val = "None") = (match = {})
           /\ (ret.val = "frame") = (f # <<>>)
           /\ ret.val \in {"None", "frame"}
           /\ {<<f[i].time, f[i].value>> : i \in DOMAIN f}
                 = {<<r.forecast_time, r.value>> : r \in match}
           /\ Len(f) = Cardinality(match)
           /\ \A i, j \in DOMAIN f : i < j => f[i].time < f[j].time

\* a read that gave the row at the far end of its window and left out
\* another row the table held
C11_Witness ==
    /\ ret.op = "get_latest_forecast"
    /\ ret.val = "frame"
    /\ \E i \in DOMAIN ret.arg.frame :
          ret.arg.frame[i].time = ret.arg.at + ret.arg.hours_limit * HourTicks
    /\ Cardinality(forecast_data) > Len(ret.arg.frame)

\* the severity order of a warning: minor < moderate < severe < extreme
SeverityRank == [minor |-> 1, moderate |-> 2, severe |-> 3, extreme |-> 4]

(* C12: get_active_warnings returns the warnings by severity descending   *)
(* in the order minor < moderate < severe < extreme (extreme first), and   *)
(* by start time ascending among warnings of equal severity.               *)
C12_WarningsBySeverity ==
    (ret.op = "get_active_warnings") =>
        \A i, j \in DOMAIN ret.arg :
            i < j =>
                \/ SeverityRank[ret.arg[i].severity] > SeverityRank[ret.arg[j].severity]
                \/ /\ ret.arg[i].severity = ret.arg[j].severity
                   /\ ret.arg[i].start_time <= ret.arg[j].start_time

\* the rows a step takes out of weather_warnings
Deleted == {weather_warnings[i] : i \in DOMAIN weather_warnings}
              \ {weather_warnings'[i] : i \in DOMAIN weather_warnings'}

(* C13: clear_old_data(days_to_keep) deletes a weather_warnings row only   *)
(* when the warning is both expired (end time set and in the past) and     *)
(* older than the retention window: an active warning is never deleted     *)
(* and an expired warning younger than the window is kept.                 *)
C13_SweepOnlyExpiredAndOld ==
    [][\A days \in SweepDays :
          clear_old_data(days, FALSE) =>
              \A r \in Deleted : /\ r.end_time # NoTime /\ r.end_time < now
                                 /\ r.created_at < now - days * DayTicks]_vars

(* C14: save_forecast_data is atomic per batch: whatever the batch and     *)
(* wherever the row-by-row insert fails (database error, or a value that   *)
(* cannot be converted), the committed table changes only by a whole       *)
(* batch at once, so that no reader sees part of a batch.                  *)
C14_BatchAtomic ==
    [][forecast_data' # forecast_data =>
          \E s \in Sessions :
              /\ ftx[s].pc = "open" /\ ftx'[s].pc = "idle"
              /\ ret'.val = "True"
              /\ forecast_data' = SaveRows(forecast_data, ftx[s].location_id,
                                           ftx[s].parameter_code, ftx[s].batch, now)]_vars

\* a call has failed after its first INSERT and the table holds no row
C14_Witness ==
    /\ ret.op = "save_forecast_data"
    /\ ret.val \in {"False", "raised"}
    /\ ret.arg >= 1
    /\ forecast_data = {}

\* the values of the series a bundle holds under a key, none when it holds no usable series
ValuesOf(b, key) ==
    IF HasValues(b[key]) THEN {b[key].rows[i].value : i \in DOMAIN b[key].rows} ELSE {}

\* the call has been made on a bundle whose frames all have a time column
Classified ==
    /\ calc.fn = "identify_severe_weather"
    /\ \A k \in BundleKeys : ~RaisesKeyError(calc.input[k])

EventTypes(events) == {events[i].type : i \in DOMAIN events}

(* C15: the thresholds are strict: Extreme Heat iff some temperature is    *)
(* above 30, Extreme Cold iff some temperature is below -20, Heavy         *)
(* Precipitation iff some precipitation value is above 10, Strong Winds    *)
(* iff some wind speed is above 50; a value equal to the threshold makes   *)
(* no event.                                                               *)
C15_StrictThresholds ==
    Classified =>
        LET types == EventTypes(calc.output)
            b == calc.input
        IN /\ ("Extreme Heat" \in types) = (\E v \in ValuesOf(b, "TMP_TGL_2") : v > 3000)
           /\ ("Extreme Cold" \in types) = (\E v \in ValuesOf(b, "TMP_TGL_2") : v < -2000)
           /\ ("Heavy Precipitation" \in types)
                 = (\E v \in ValuesOf(b, "APCP_SFC") : v > 1000)
           /\ ("Strong Winds" \in types) = (\E v \in ValuesOf(b, "WIND_TGL_10") : v > 5000)

\* a bundle with every threshold met exactly and none crossed gave no event
C15_Witness ==
    /\ Classified
    /\ {3000, -2000} \subseteq ValuesOf(calc.input, "TMP_TGL_2")
    /\ ValuesOf(calc.input, "APCP_SFC") = {1000}
    /\ ValuesOf(calc.input, "WIND_TGL_10") = {5000}
    /\ calc.output = <<>>

\* the parameter a rule reads and whether a value crosses the rule's threshold
RuleKey(type) ==
    CASE type = "Extreme Heat" -> "TMP_TGL_2"
      [] type = "Extreme Cold" -> "TMP_TGL_2"
      [] type = "Heavy Precipitation" -> "APCP_SFC"
      [] type = "Strong Winds" -> "WIND_TGL_10"

RuleCrossed(type, v) ==
    CASE type = "Extreme Heat" -> v > 3000
      [] type = "Extreme Cold" -> v < -2000
      [] type = "Heavy Precipitation" -> v > 1000
      [] type = "Strong Winds" -> v > 5000

(* C16: for every bundle at most one event is emitted per rule, however    *)
(* many values cross the threshold, and the event's timestamp list holds   *)
(* exactly the timestamps of the crossing values, in series order.         *)
C16_OneEventPerRule ==
    Classified =>
        /\ \A i, j \in DOMAIN calc.output :
              calc.output[i].type = calc.output[j].type => i = j
        /\ \A i \in DOMAIN calc.output :
              LET e == calc.output[i]
                  crossing == SelectSeq(calc.input[RuleKey(e.type)].rows,
                                        LAMBDA r : RuleCrossed(e.type, r.value))
              IN e.times = [n \in DOMAIN crossing |-> crossing[n].time]

\* a series whose values all crossed a threshold gave one event with all their timestamps
C16_Witness ==
    /\ Classified
    /\ \E i \in DOMAIN calc.output :
          /\ Len(calc.output[i].times) >= 2
          /\ Len(calc.output[i].times) = Len(calc.input[RuleKey(calc.output[i].type)].rows)

\* the key is missing, None, or a frame without a value column
Absent(entry) == ~HasValues(entry)

Rules == {"Extreme Heat", "Extreme Cold", "Heavy Precipitation", "Strong Winds"}

(* C17: a parameter absent from the bundle (missing key, None, or a        *)
(* series without a value column) is not an error: its rule is skipped     *)
(* with no event, and every rule of the other parameters still gives its   *)
(* event exactly when one of its own values crosses, whichever parameter   *)
(* is the absent one.                                                      *)
C17_AbsentParameterSkipped ==
    (Classified /\ \E k \in BundleKeys : Absent(calc.input[k])) =>
        \A type \in Rules :
            LET entry == calc.input[RuleKey(type)]
            IN (type \in EventTypes(calc.output)) =
               (/\ ~Absent(entry)
                /\ \E i \in DOMAIN entry.rows : RuleCrossed(type, entry.rows[i].value))

\* the precipitation is absent and both the temperature and the wind gave their events
C17_Witness ==
    /\ Classified
    /\ Absent(calc.input["APCP_SFC"])
    /\ {"Extreme Heat", "Strong Winds"} \subseteq EventTypes(calc.output)

\* the call has been made on two series
Chilled ==
    /\ calc.fn = "calculate_wind_chill"
    /\ calc.input.temp_df # NoneFrame
    /\ calc.input.wind_df # NoneFrame

\* the timestamps of the result at which the wind chill is a number
ChillDefinedAt ==
    {calc.output.rows[i].time : i \in {j \in DOMAIN calc.output.rows :
                                            calc.output.rows[j].wind_chill = "number"}}

(* C18: calculate_wind_chill gives a defined wind chill at a timestamp iff *)
(* the temperature is at most 10 and the wind speed at least 5 at that     *)
(* timestamp, both limits included; at every other timestamp, such as one  *)
(* with temperature 15 whatever the wind, the wind chill is null.          *)
C18_WindChillDefinedIff ==
    Chilled =>
        LET temps == calc.input.temp_df.rows
            winds == calc.input.wind_df.rows
        IN /\ calc.output.kind = "frame"
           /\ ChillDefinedAt =
                 {temps[i].time : i \in {j \in DOMAIN temps :
                     /\ temps[j].value <= 1000
                     /\ \E k \in DOMAIN winds : /\ winds[k].time = temps[j].time
                                                 /\ winds[k].value >= 500}}
           /\ \A i \in DOMAIN calc.output.rows :
                 calc.output.rows[i].wind_chill \in {"number", "NaN"}

\* one timestamp exactly on both limits has a wind chill, one at 15 degrees has none
C18_Witness ==
    /\ Chilled
    /\ \E i, j \in DOMAIN calc.output.rows :
          /\ calc.output.rows[i].value_temp = 1000
          /\ calc.output.rows[i].value_wind = 500
          /\ calc.output.rows[i].wind_chill = "number"
          /\ calc.output.rows[j].value_temp = 1500
          /\ calc.output.rows[j].value_wind = 500
          /\ calc.output.rows[j].wind_chill = "NaN"

Indexed == calc.fn = "calculate_fire_weather_index"

\* the five bands of the index, in hundredths: each starts where the one before ends
Bands == <<[category |-> "Low", from |-> 0, upto |-> 2000],
           [category |-> "Moderate", from |-> 2000, upto |-> 4000],
           [category |-> "High", from |-> 4000, upto |-> 6000],
           [category |-> "Very High", from |-> 6000, upto |-> 8000],
           [category |-> "Extreme", from |-> 8000, upto |-> 10001]>>

\* the returned value is the index to one decimal: the index lies within half a tenth of it
InBand(band, value) == \E fwi \in (value - 5)..(value + 4) : band.from <= fwi /\ fwi < band.upto

(* C19: for every temperature, humidity, wind speed and rainfall,          *)
(* calculate_fire_weather_index returns a value between 0 and 100 and one  *)
(* of the categories Low, Moderate, High, Very High, Extreme, which is the *)
(* fixed band the index lies in (the bands are contiguous and do not       *)
(* overlap); 35 degrees, 10% humidity, wind 30 and no rain is Extreme, and *)
(* 15 degrees, 80% humidity, wind 5 and 20 mm of rain is Low.              *)
C19_FireWeatherIndexBands ==
    Indexed =>
        /\ 0 <= calc.output.value /\ calc.output.value <= 10000
        /\ \E i \in DOMAIN Bands : /\ Bands[i].category = calc.output.category
                                   /\ InBand(Bands[i], calc.output.value)
        /\ \A i \in DOMAIN Bands :
              (Bands[i].from + 5 <= calc.output.value /\ calc.output.value < Bands[i].upto - 5)
                  => calc.output.category = Bands[i].category
        /\ calc.input = [temp |-> 35, humidity |-> 100, windspeed |-> 30, precip |-> 0]
              => calc.output.category = "Extreme"
        /\ calc.input = [temp |-> 15, humidity |-> 800, windspeed |-> 5, precip |-> 200]
              => calc.output.category = "Low"

\* the first example has been computed: index 87, Extreme
C19_Witness ==
    /\ Indexed
    /\ calc.input = [temp |-> 35, humidity |-> 100, windspeed |-> 30, precip |-> 0]
    /\ calc.output = [value |-> 8700, category |-> "Extreme", color |-> "red"]

(* C20: a forecast request for a parameter code outside the provider's     *)
(* supported set fails with an UnsupportedParameter error: it never hands  *)
(* back empty data, absent data or a synthetic series for the unknown      *)
(* code, and it writes nothing to persistence.                             *)
C20_UnsupportedParameterFails ==
    /\ \A s \in Sessions :
          rq[s].parameter \notin Params =>
              /\ rq[s].pc # "done"
              /\ rq[s].source # "sample"
    /\ \A r \in forecast_data : r.parameter_code \in Params
    /\ ~(ret.op = "fetch_forecast_data" /\ ret.val = "None")

(* C21: persisted forecast rows expire by time-to-live: once more than the *)
(* forecast TTL (one hour) has passed since the rows of a (location,       *)
(* parameter) were written, the next request treats them as stale and      *)
(* calls the provider instead of returning them.                           *)
C21_PersistedRowsExpire ==
    \A s \in Sessions :
        rq[s].source = "cache" =>
            \A r \in forecast_data :
                (/\ r.location_id = rq[s].location_id
                 /\ r.parameter_code = rq[s].parameter
                 /\ r.forecast_time >= rq[s].start) =>
                    rq[s].start - r.created_at <= TTLTicks

(* C22: a model_runs row is created or marked latest only by a request     *)
(* whose provider fetch succeeded: when the provider call of a             *)
(* fetch_gdps_data request fails, model_runs and its latest marker are     *)
(* the same after the request as before it.                                *)
C22_RunRecordedOnlyOnSuccess ==
    \A s \in Sessions :
        (/\ rq[s].pc = "done"
         /\ rq[s].httpCalled
         /\ rq[s].http \in {"unavailable", "unparseable"}) =>
            model_runs = rq[s].preRuns

(* C23: no raw exception leaves the cache orchestrator: for every          *)
(* parameter code, database state and provider outcome (success, network   *)
(* failure, malformed payload, failure of the secondary provider)          *)
(* fetch_and_process_data ends by returning a series or an absent value,   *)
(* never by raising into the rendering layer.                              *)
C23_NoRawException ==
    \A s \in Sessions : rq[s].pc # "raised"

\* both sessions have finished a request for the same key that found the cache cold
BothCold ==
    /\ \A s \in Sessions : rq[s].pc = "done" /\ rq[s].cached = <<>> /\ ~rq[s].raised
    /\ rq["s1"].location_id = rq["s2"].location_id
    /\ rq["s1"].parameter = rq["s2"].parameter

(* C24: when two sessions concurrently request the same cold (location,    *)
(* parameter) key, the persisted forecast for the key afterwards is        *)
(* last-writer-wins: one row per forecast time, and all rows of the key    *)
(* come from the series of a single session, never a mixture of both.      *)
C24_ConcurrentColdKeyOneSeries ==
    BothCold =>
        LET rows == {r \in forecast_data : /\ r.location_id = rq["s1"].location_id
                                           /\ r.parameter_code = rq["s1"].parameter}
        IN /\ \A r1, r2 \in rows : r1.forecast_time = r2.forecast_time => r1 = r2
           /\ \E s \in Sessions :
                 \A r \in rows : \E i \in DOMAIN rq[s].raw :
                     /\ rq[s].raw[i].time = r.forecast_time
                     /\ rq[s].raw[i].value = r.value

(* C29: when two sessions concurrently resolve the same new coordinates    *)
(* (both find no location, then both save), the locations table ends with  *)
(* exactly one row for the place and both sessions have the same id.       *)
C29_ConcurrentResolveOneRow ==
    (\A s \in Sessions : rq[s].location_id # NoLocation) =>
        /\ Len(locations) = 1
        /\ rq["s1"].location_id = rq["s2"].location_id

\* two rows of weather_warnings that hold the same alert for the same location
SameAlert(a, b) ==
    /\ a.location_id = b.location_id
    /\ a.warning_type = b.warning_type
    /\ a.start_time = b.start_time
    /\ a.end_time = b.end_time
    /\ a.severity = b.severity

\* C25: whatever fetch_severe_warnings requests ran, one after another or
\* overlapping, weather_warnings holds an alert at most once for a location
C25_WarningsNoDuplicates ==
    \A i, j \in DOMAIN weather_warnings :
        SameAlert(weather_warnings[i], weather_warnings[j]) => i = j


\* C26: calculate_wind_chill, given a temperature frame without its time or
\* its value column, returns the frame it was given
C26_MissingColumnReturnsInput ==
    (/\ calc.fn = "calculate_wind_chill"
     /\ ~({"time", "value"} \subseteq calc.input.temp_df.columns))
        => calc.output = calc.input.temp_df


\* C27: when a request missed the cache and the provider answered, every
\* forecast_data row the request wrote holds the value the request returned
\* to its caller for that time
C27_StoredValuesNormalized ==
    \A s \in Sessions :
        (/\ rq[s].pc = "done"
         /\ rq[s].source = "provider"
         /\ rq[s].http = "ok"
         /\ rq[s].location_id # NoLocation) =>
            \A i \in DOMAIN rq[s].raw :
                \E r \in forecast_data :
                    /\ r.location_id = rq[s].location_id
                    /\ r.parameter_code = rq[s].parameter
                    /\ r.forecast_time = rq[s].raw[i].time
                    /\ r.value = rq[s].result[i].value


\* C28: for every listed parameter code and every horizon of at least one
\* hour, the synthetic branch of generate_sample_data raises nothing and
\* returns exactly `hours` points, one per hour from the current time on
C28_SampleHasHoursPoints ==
    calc.fn = "generate_sample_data" =>
        /\ ~calc.output.raised
        /\ Len(calc.output.rows) = calc.input.hours
        /\ \A h \in DOMAIN calc.output.rows :
              calc.output.rows[h].time = now + (h - 1) * HourTicks


\* the run returned for the clock value of the call is the run of the clock's
\* own date, 00Z when the hour is below 15 and 12Z otherwise, and is not later
\* than the clock
RunOfToday ==
    LET t == calc.input
        run == calc.output.run
    IN /\ run \div DayTicks = t \div DayTicks
       /\ run % DayTicks = (IF (t % DayTicks) < 15 * HourTicks THEN 0 ELSE 12 * HourTicks)
       /\ run <= t

====
